---- MODULE Spec2Model ----
(***************************************************************************)
(* Survey Analyzer (src/app.py): a Streamlit page script.  Every user      *)
(* interaction re-executes the whole script top to bottom with the current *)
(* widget values; the state of the session is the widget values, and what  *)
(* the last execution of the script put on the page.                       *)
(*                                                                         *)
(* Numbers.  Floats are modelled as decimals on a fixed grid of 10^-5      *)
(* (Unit = 1.0), with NaN as a separate value whose comparisons are all    *)
(* false, as in IEEE arithmetic.  Column names are sequences of            *)
(* characters, so that str.lower() is computed and not assumed.            *)
(***************************************************************************)
EXTENDS Integers, Sequences, FiniteSets

VARIABLES language,   \* sidebar selectbox (line 118)
          page,       \* sidebar radio (line 119): the label of the page
          uploaded,   \* file_uploader (line 149): a file of Files, or NoFile
          col,        \* selectbox "Variable" (line 190): a column name, or None
          x,          \* selectbox select_x (line 227)
          y,          \* selectbox select_y (line 228)
          method,     \* selectbox method (line 229), NoMethod while not rendered
          shown,      \* what the last execution of the script displayed
          button,     \* st.button(T["run"]) in the last execution (line 231)
          call,       \* the engine call made by the last execution and what
                      \* it returned, or NoCall
          clicks,     \* clicks on the run button so far
          engineCalls,\* calls of stats.pearsonr / stats.spearmanr so far
          fn          \* input and output of the interpretation code applied
                      \* on its own (specification FnSpec)

vars == <<language, page, uploaded, col, x, y, method, shown, button, call,
          clicks, engineCalls, fn>>

sessionVars == <<language, page, uploaded, col, x, y, method, shown, button,
                 call, clicks, engineCalls>>

----------------------------------------------------------------------------
(* Bounds of the model *)

\* clicks on the run button in one behaviour
MaxClicks == 2
\* longest column the frequency table is applied to in FnSpec
MaxLen == 6
\* largest value in such a column (values are 1..MaxVal)
MaxVal == 3

----------------------------------------------------------------------------
(* Floats *)

\* 1.0 on the grid
Unit == 10 * 10000
NaN == [nan |-> TRUE, v |-> 0]
F(v) == [nan |-> FALSE, v |-> v]
\* a < b on floats: false as soon as one side is NaN
FLt(a, b) == ~a.nan /\ ~b.nan /\ a.v < b.v
\* abs(r)
FAbs(a) == IF a.nan THEN NaN ELSE F(IF a.v < 0 THEN -a.v ELSE a.v)

\* num/den rounded to the nearest integer, ties to even (num >= 0, den > 0)
RoundHalfEven(num, den) ==
    LET q == num \div den
        rem == num % den
    IN  IF 2 * rem < den THEN q
        ELSE IF 2 * rem > den THEN q + 1
        ELSE IF q % 2 = 0 THEN q ELSE q + 1

Pow10(d) == IF d = 0 THEN 1 ELSE IF d = 1 THEN 10 ELSE IF d = 2 THEN 100
            ELSE IF d = 3 THEN 1000 ELSE 10000

\* f"{a:.<d>f}" for d <= 4: the text "nan", or sign, integer part and d
\* fraction digits (frac is the number the d digits spell).  A grid value
\* exactly halfway between two outputs is rounded to even; the inputs of the
\* model hold no such value, since the float next to it may round either way.
FormatFixed(a, d) ==
    IF a.nan THEN [nan |-> TRUE, neg |-> FALSE, int |-> 0, frac |-> 0, digits |-> d]
    ELSE LET mag == IF a.v < 0 THEN -a.v ELSE a.v
             q == RoundHalfEven(mag * Pow10(d), Unit)
         IN  [nan |-> FALSE, neg |-> a.v < 0, int |-> q \div Pow10(d),
              frac |-> q % Pow10(d), digits |-> d]

----------------------------------------------------------------------------
(* Column names *)

UpperToLower ==
    [c \in {"A","B","C","D","E","F","G","H","I","J","K","L","M","N","O","P",
            "Q","R","S","T","U","V","W","X","Y","Z"} |->
        CASE c = "A" -> "a" [] c = "B" -> "b" [] c = "C" -> "c" [] c = "D" -> "d"
          [] c = "E" -> "e" [] c = "F" -> "f" [] c = "G" -> "g" [] c = "H" -> "h"
          [] c = "I" -> "i" [] c = "J" -> "j" [] c = "K" -> "k" [] c = "L" -> "l"
          [] c = "M" -> "m" [] c = "N" -> "n" [] c = "O" -> "o" [] c = "P" -> "p"
          [] c = "Q" -> "q" [] c = "R" -> "r" [] c = "S" -> "s" [] c = "T" -> "t"
          [] c = "U" -> "u" [] c = "V" -> "v" [] c = "W" -> "w" [] c = "X" -> "x"
          [] c = "Y" -> "y" [] c = "Z" -> "z"]

\* c.lower()
Lower(name) ==
    [i \in DOMAIN name |->
        IF name[i] \in DOMAIN UpperToLower THEN UpperToLower[name[i]] ELSE name[i]]

\* the allow-lists of lines 224 and 225
XAllow == { <<"x","1">>, <<"x","2">>, <<"x","3">>, <<"x","4">>, <<"x","5">>,
            <<"x","_","t","o","t","a","l">> }
YAllow == { <<"y","1">>, <<"y","2">>, <<"y","3">>, <<"y","4">>, <<"y","5">>,
            <<"y","_","t","o","t","a","l">> }

\* st.selectbox over no options returns None
None == <<>>
NoFile == "no file"
NoMethod == "no method"

----------------------------------------------------------------------------
(* LANG, lines 75-112 (the labels the model uses) *)

LANG ==
    [English |-> [home |-> "Home", analyzer |-> "Survey Analyzer",
                  select_x |-> "Select X Variable", select_y |-> "Select Y Variable",
                  method |-> "Correlation Method", run |-> "Run Analysis"],
     Indonesia |-> [home |-> "Beranda", analyzer |-> "Analisis Survei",
                    select_x |-> "Pilih Variabel X", select_y |-> "Pilih Variabel Y",
                    method |-> "Metode Korelasi", run |-> "Jalankan Analisis"]]

\* the options of the language selectbox, line 118
LanguageOptions == <<"English", "Indonesia">>
\* the options of the method selectbox, line 229
MethodOptions == <<"Pearson", "Spearman">>

----------------------------------------------------------------------------
(* Uploaded files.  A file is what pd.read_csv / pd.read_excel makes of it *)
(* (line 155): named columns of equal length, each numeric or not          *)
(* (select_dtypes(include=np.number), line 156).  Values are small         *)
(* integers; there are no missing values.                                  *)

x1 == <<"x","1">>
x2 == <<"x","2">>
x3 == <<"x","3">>
y1 == <<"y","1">>
y2 == <<"y","2">>
ColX1 == <<"X","1">>
ColY1 == <<"Y","1">>
ColYTotal == <<"Y","_","T","o","t","a","l">>
ColAge == <<"a","g","e">>
ColName == <<"n","a","m","e">>
ColQ == <<"q">>

NumCol(n, d) == [name |-> n, numeric |-> TRUE, data |-> d]
TextCol(n, k) == [name |-> n, numeric |-> FALSE, data |-> [i \in 1..k |-> 0]]

Dataset ==
    [survey |-> << NumCol(ColX1, <<1,2,3,4>>),       \* upper-case name
                   NumCol(x2, <<2,2,2,2>>),          \* zero variance
                   TextCol(x3, 4),                   \* on the list, not numeric
                   NumCol(ColY1, <<2,4,6,8>>),
                   NumCol(y2, <<4,1,3,2>>),
                   NumCol(ColYTotal, <<3,3,1,1>>),
                   NumCol(ColAge, <<1,1,2,3>>),      \* numeric, on no list
                   TextCol(ColName, 4) >>,
     single |-> << NumCol(x1, <<1>>), NumCol(y1, <<2>>) >>,
     pair   |-> << NumCol(x1, <<1,2>>), NumCol(y1, <<5,3>>) >>,
     noX    |-> << NumCol(y1, <<1,2,3,4>>), NumCol(ColAge, <<4,2,2,1>>) >>,
     text   |-> << TextCol(ColName, 3), TextCol(x1, 3) >>,
     e2e    |-> << NumCol(x1, <<1,2,3,4,5>>), NumCol(y1, <<2,4,6,8,10>>),
                   NumCol(y2, <<5,4,3,2,1>>) >>,
     freq   |-> << NumCol(ColQ, <<1,1,2,3,3,3>>), NumCol(x1, <<1,2,2,3,1,2>>),
                   NumCol(y1, <<1,3,2,2,1,3>>) >>]

Files == DOMAIN Dataset

\* df.select_dtypes(include=np.number).columns.tolist(), line 156
numeric_cols(file) ==
    LET df == Dataset[file]
        keep(c) == c.numeric
        names(s) == [i \in DOMAIN s |-> s[i].name]
    IN  names(SelectSeq(df, keep))

\* line 224 without .lower(): the match is case-sensitive
x_varsCaseSensitive(file) ==
    LET ok(c) == c \in XAllow
    IN  SelectSeq(numeric_cols(file), ok)

\* [c for c in numeric_cols if c.lower() in [...]], lines 224 and 225
x_vars(file) ==
    LET ok(c) == Lower(c) \in XAllow
    IN  SelectSeq(numeric_cols(file), ok)

y_vars(file) ==
    LET ok(c) == Lower(c) \in YAllow
    IN  SelectSeq(numeric_cols(file), ok)

Range(s) == { s[i] : i \in DOMAIN s }

\* df[c]: the values of column c (c is a column of the file)
Column(file, c) ==
    LET df == Dataset[file]
    IN  df[CHOOSE i \in DOMAIN df : df[i].name = c].data

\* df[c] raises KeyError when c is no column of df: None never is
HasColumn(file, c) == \E i \in DOMAIN Dataset[file] : Dataset[file][i].name = c

----------------------------------------------------------------------------
(* Frequency table, lines 191-197 *)

\* the number of rows of the column holding v
CountOf(data, v) == Cardinality({ i \in DOMAIN data : data[i] = v })

\* Series.value_counts(): the count of every distinct value
value_counts(data) == [v \in Range(data) |-> CountOf(data, v)]

\* the keys of a series in ascending order
RECURSIVE Ascending(_)
Ascending(S) ==
    IF S = {} THEN <<>>
    ELSE LET m == CHOOSE a \in S : \A b \in S : a <= b
         IN  <<m>> \o Ascending(S \ {m})

\* Series.sort_index(): the index of the series, ascending
sort_index(series) == Ascending(DOMAIN series)

\* the percentage cut to two decimals instead of rounded
percentTruncated(data, v) == (100 * 100 * CountOf(data, v)) \div Len(data)

\* value_counts(normalize=True) * 100, then .round(2): in hundredths of a
\* percent; numpy rounds to the nearest, ties to even
percent(data, v) == RoundHalfEven(100 * 100 * CountOf(data, v), Len(data))

\* freq_df: one row per index entry of freq, in the order of freq
freq_df(data) ==
    LET freq == value_counts(data)
        idx == sort_index(freq)
    IN  [i \in DOMAIN idx |->
            [value |-> idx[i], Frequency |-> freq[idx[i]],
             Percentage |-> percent(data, idx[i])]]

----------------------------------------------------------------------------
(* The correlation engine: scipy.stats.pearsonr and spearmanr, called at   *)
(* lines 233 and 235.  What the library does on degenerate input is        *)
(* modelled exactly: too few rows, a constant column, two rows, collinear  *)
(* data, no covariance.  On any other data the coefficient has the sign of *)
(* the covariance and the model lets (r, p) be any of the sample points:   *)
(* the t-distribution is not computed.                                     *)

RECURSIVE SumSeq(_)
SumSeq(s) == IF s = <<>> THEN 0 ELSE Head(s) + SumSeq(Tail(s))

Prod(a, b) == [i \in DOMAIN a |-> a[i] * b[i]]

\* n * sum(a*b) - sum(a) * sum(b): n^2 times the covariance
Cov(a, b) == Len(a) * SumSeq(Prod(a, b)) - SumSeq(a) * SumSeq(b)

IsConstant(a) == \A i \in DOMAIN a : a[i] = a[1]

Sign(k) == IF k > 0 THEN 1 ELSE IF k < 0 THEN -1 ELSE 0

\* twice the rank of each entry, ties sharing the average rank (rankdata)
Rank2(a) ==
    [i \in DOMAIN a |->
        2 * Cardinality({ j \in DOMAIN a : a[j] < a[i] })
          + Cardinality({ j \in DOMAIN a : a[j] = a[i] }) + 1]

Returned(r, p) == [raised |-> "", r |-> r, p |-> p]
Raised(e) == [raised |-> e, r |-> NaN, p |-> NaN]

\* sample points (|r|, p) for data the model does not compute: every bucket
\* boundary of the strength scale and both sides of it, both sides of 0.05
Samples ==
    { <<0, 64000>>, <<19999, 5000>>, <<20000, 4999>>, <<39999, 5001>>,
      <<40000, 4990>>, <<59999, 10000>>, <<60000, 120>>, <<79999, 8>>,
      <<80000, 3>>, <<99990, 0>> }

Generic(sign) == { Returned(F(sign * s[1]), F(s[2])) : s \in Samples }

\* the coefficient and p-value of the paired data a, b with n >= 3 rows,
\* neither constant
Correlate(a, b) ==
    LET c == Cov(a, b)
    IN  IF c * c = Cov(a, a) * Cov(b, b) THEN { Returned(F(Sign(c) * Unit), F(0)) }
        ELSE IF c = 0 THEN { Returned(F(0), F(Unit)) }
        ELSE Generic(Sign(c))

\* stats.pearsonr(a, b): the outcomes the call may have
pearsonr(a, b) ==
    IF Len(a) < 2 THEN { Raised("ValueError") }
    ELSE IF IsConstant(a) \/ IsConstant(b) THEN { Returned(NaN, NaN) }
    ELSE IF Len(a) = 2
         THEN { Returned(F(Sign(a[2] - a[1]) * Sign(b[2] - b[1]) * Unit), F(Unit)) }
    ELSE Correlate(a, b)

\* stats.spearmanr(a, b)
spearmanr(a, b) ==
    IF Len(a) <= 1 THEN { Returned(NaN, NaN) }
    ELSE IF IsConstant(a) \/ IsConstant(b) THEN { Returned(NaN, NaN) }
    ELSE IF Len(a) = 2
         THEN { Returned(F(Sign(a[2] - a[1]) * Sign(b[2] - b[1]) * Unit), NaN) }
    ELSE Correlate(Rank2(a), Rank2(b))

----------------------------------------------------------------------------
(* Interpretation, lines 244-263 *)

\* the threshold of line 252
Alpha == 5000

\* a <= b on floats
FLe(a, b) == ~a.nan /\ ~b.nan /\ a.v <= b.v

\* lines 244-250 with <= for <: a boundary value falls in the lower bucket
strengthBoundaryLow(r) ==
    IF FLe(FAbs(r), F(20000)) THEN "very weak"
    ELSE IF FLe(FAbs(r), F(40000)) THEN "weak"
    ELSE IF FLe(FAbs(r), F(60000)) THEN "moderate"
    ELSE IF FLe(FAbs(r), F(80000)) THEN "strong"
    ELSE "very strong"

\* lines 244-250
strength(r) ==
    IF FLt(FAbs(r), F(20000)) THEN "very weak"
    ELSE IF FLt(FAbs(r), F(40000)) THEN "weak"
    ELSE IF FLt(FAbs(r), F(60000)) THEN "moderate"
    ELSE IF FLt(FAbs(r), F(80000)) THEN "strong"
    ELSE "very strong"

\* line 252 with <= for <
sigInclusive(p) == IF FLe(p, F(Alpha)) THEN "significant" ELSE "not significant"

\* line 252
sig(p) == IF FLt(p, F(Alpha)) THEN "significant" ELSE "not significant"

\* lines 254-263 with the p-value of the sentence formatted as {p:.3f}
renderNarrativeThreeDecimals(xn, yn, st, sg, p, lang) ==
    IF lang = "Indonesia"
    THEN << "Terdapat **hubungan ", st, "** antara **", xn, "** dan **", yn,
            "** dengan nilai p **", sg, "** (p = ", FormatFixed(p, 3), ")." >>
    ELSE << "There is a **", st, " relationship** between **", xn, "** and **", yn,
            "**, and the result is **", sg, "** (p = ", FormatFixed(p, 3), ")." >>

\* lines 254-263: the sentence, as the pieces of the f-string in order
renderNarrative(xn, yn, st, sg, p, lang) ==
    IF lang = "Indonesia"
    THEN << "Terdapat **hubungan ", st, "** antara **", xn, "** dan **", yn,
            "** dengan nilai p **", sg, "** (p = ", FormatFixed(p, 4), ")." >>
    ELSE << "There is a **", st, " relationship** between **", xn, "** and **", yn,
            "**, and the result is **", sg, "** (p = ", FormatFixed(p, 4), ")." >>

----------------------------------------------------------------------------
(* One execution of the script, lines 117-273 *)

NoCall == [fn |-> "", x |-> None, y |-> None, raised |-> "", r |-> NaN, p |-> NaN]

\* a page with the header alone
Blank == [preview |-> NoFile, desc |-> <<>>, freq |-> <<>>, x_options |-> <<>>,
          y_options |-> <<>>, result |-> <<>>, narrative |-> <<>>, error |-> ""]

\* lines 155-229: preview, descriptive statistics (one row per numeric
\* column), frequency table of the chosen column, the options of the X and
\* Y selectors
Sections(file, c) ==
    [Blank EXCEPT !.preview = file, !.desc = numeric_cols(file),
                  !.freq = freq_df(Column(file, c)),
                  !.x_options = x_vars(file), !.y_options = y_vars(file)]

\* lines 232-235 calling stats.pearsonr whatever the method
EngineCallPearsonOnly(m, xs, ys, out) ==
    [fn |-> "pearsonr", x |-> xs, y |-> ys,
     raised |-> out.raised, r |-> out.r, p |-> out.p]

\* lines 232-235: the call the run button makes, with its outcome
EngineCall(m, xs, ys, out) ==
    [fn |-> IF m = "Pearson" THEN "pearsonr" ELSE "spearmanr", x |-> xs, y |-> ys,
     raised |-> out.raised, r |-> out.r, p |-> out.p]

\* the outcomes of that call on the file's data
EngineOutcomes(file, m, xs, ys) ==
    IF m = "Pearson" THEN pearsonr(Column(file, xs), Column(file, ys))
    ELSE spearmanr(Column(file, xs), Column(file, ys))

\* lines 232-235 with the button pressed: df[x] and df[y] are evaluated
\* before the call and raise KeyError for a selection that is no column of
\* df, so that no call is made; otherwise the call and one of its outcomes
RunOutcomes(file, m, xs, ys) ==
    IF ~HasColumn(file, xs) \/ ~HasColumn(file, ys)
    THEN { [call |-> NoCall, out |-> Raised("KeyError")] }
    ELSE { [call |-> EngineCall(m, xs, ys, o), out |-> o] :
             o \in EngineOutcomes(file, m, xs, ys) }

\* the run section inside a try/except that drops the exception
RunSectionSwallow(base, lang, xs, ys, out) ==
    IF out.raised # "" THEN base
    ELSE [base EXCEPT
            !.result = << FormatFixed(out.r, 3), FormatFixed(out.p, 4) >>,
            !.narrative = renderNarrative(xs, ys, strength(out.r), sig(out.p),
                                          out.p, lang)]

\* lines 237-263: what the run section adds to the page.  An exception
\* stops the script there and Streamlit shows it below what was rendered.
RunSection(base, lang, xs, ys, out) ==
    IF out.raised # "" THEN [base EXCEPT !.error = out.raised]
    ELSE [base EXCEPT
            !.result = << FormatFixed(out.r, 3), FormatFixed(out.p, 4) >>,
            !.narrative = renderNarrative(xs, ys, strength(out.r), sig(out.p),
                                          out.p, lang)]

\* whether the script, run on this page with this file, reaches the
\* selectors and the run button (lines 190-231): df[numeric_cols].mode()
\* .iloc[0] at line 175 raises IndexError when there is no numeric column
ReachesSelectors(lang, pg, file) ==
    /\ pg # LANG[lang].home
    /\ file # NoFile
    /\ numeric_cols(file) # <<>>

\* the page without the run section
Page(lang, pg, file, c) ==
    IF pg = LANG[lang].home \/ file = NoFile THEN Blank
    ELSE IF numeric_cols(file) = <<>>
         THEN [Blank EXCEPT !.preview = file, !.error = "IndexError"]
    ELSE Sections(file, c)

\* A selectbox keeps the user's choice from one execution to the next while
\* it is rendered with the same label and options; otherwise it shows its
\* first option, or None when it has none.
Widget(prev, kept, options) ==
    IF kept THEN prev ELSE IF options = <<>> THEN None ELSE options[1]

----------------------------------------------------------------------------
(* The session *)

Idle == [kind |-> "idle"]

Init ==
    /\ language = LanguageOptions[1]
    /\ page = LANG[LanguageOptions[1]].home
    /\ uploaded = NoFile
    /\ col = None
    /\ x = None
    /\ y = None
    /\ method = NoMethod
    /\ shown = Blank
    /\ button = FALSE
    /\ call = NoCall
    /\ clicks = 0
    /\ engineCalls = 0
    /\ fn = Idle

\* An execution of the script that does not reach the selectors: widgets
\* that are not rendered lose their state (the uploader too, on the home page)
Unrendered(lang, pg, file) ==
    /\ uploaded' = IF pg = LANG[lang].home THEN NoFile ELSE file
    /\ col' = None /\ x' = None /\ y' = None /\ method' = NoMethod
    /\ shown' = Page(lang, pg, file, None)
    /\ button' = FALSE
    /\ call' = NoCall

\* The sidebar selectbox changes.  The options of the page radio (line 121)
\* change with the language, so the radio is a new widget showing its first
\* option, the home page.
SetLanguage(l) ==
    /\ l \in Range(LanguageOptions)
    /\ l # language
    /\ language' = l
    /\ page' = LANG[l].home
    /\ Unrendered(l, LANG[l].home, NoFile)
    /\ UNCHANGED <<clicks, engineCalls, fn>>

\* The page radio changes (lines 119-123, 130, 141)
SetPage(p) ==
    /\ p \in {LANG[language].home, LANG[language].analyzer}
    /\ p # page
    /\ page' = p
    /\ Unrendered(language, p, IF p = LANG[language].home THEN NoFile ELSE uploaded)
    /\ UNCHANGED <<language, clicks, engineCalls, fn>>

\* A file is uploaded on the analyzer page (line 149) and the script runs on
\* it: lines 151-229, the run button not pressed
Upload(f) ==
    /\ page = LANG[language].analyzer
    /\ f \in Files
    /\ f # uploaded
    /\ IF ~ReachesSelectors(language, page, f)
       THEN Unrendered(language, page, f)
       ELSE LET rendered == method # NoMethod
                c == Widget(col, rendered /\ numeric_cols(uploaded) = numeric_cols(f),
                            numeric_cols(f))
            IN  /\ uploaded' = f
                /\ col' = c
                /\ x' = Widget(x, rendered /\ x_vars(uploaded) = x_vars(f), x_vars(f))
                /\ y' = Widget(y, rendered /\ y_vars(uploaded) = y_vars(f), y_vars(f))
                /\ method' = Widget(method, rendered, MethodOptions)
                /\ shown' = Page(language, page, f, c)
                /\ button' = FALSE
                /\ call' = NoCall
    /\ UNCHANGED <<language, page, clicks, engineCalls, fn>>

\* The frequency-table selectbox changes (line 190)
SelectCol(c) ==
    /\ method # NoMethod
    /\ c \in Range(numeric_cols(uploaded))
    /\ c # col
    /\ col' = c
    /\ shown' = Page(language, page, uploaded, c)
    /\ button' = FALSE
    /\ call' = NoCall
    /\ UNCHANGED <<language, page, uploaded, x, y, method, clicks, engineCalls, fn>>

\* The X selectbox changes (line 227)
SelectX(c) ==
    /\ method # NoMethod
    /\ c \in Range(x_vars(uploaded))
    /\ c # x
    /\ x' = c
    /\ shown' = Page(language, page, uploaded, col)
    /\ button' = FALSE
    /\ call' = NoCall
    /\ UNCHANGED <<language, page, uploaded, col, y, method, clicks, engineCalls, fn>>

\* The Y selectbox changes (line 228)
SelectY(c) ==
    /\ method # NoMethod
    /\ c \in Range(y_vars(uploaded))
    /\ c # y
    /\ y' = c
    /\ shown' = Page(language, page, uploaded, col)
    /\ button' = FALSE
    /\ call' = NoCall
    /\ UNCHANGED <<language, page, uploaded, col, x, method, clicks, engineCalls, fn>>

\* The method selectbox changes (line 229)
SelectMethod(m) ==
    /\ method # NoMethod
    /\ m \in Range(MethodOptions)
    /\ m # method
    /\ method' = m
    /\ shown' = Page(language, page, uploaded, col)
    /\ button' = FALSE
    /\ call' = NoCall
    /\ UNCHANGED <<language, page, uploaded, col, x, y, clicks, engineCalls, fn>>

\* The run button is clicked (line 231): the script runs with the button
\* true, lines 151-271
Run ==
    /\ method # NoMethod
    /\ clicks < MaxClicks
    /\ clicks' = clicks + 1
    /\ button' = TRUE
    /\ \E o \in RunOutcomes(uploaded, method, x, y) :
          /\ call' = o.call
          /\ engineCalls' = IF o.call = NoCall THEN engineCalls ELSE engineCalls + 1
          /\ shown' = RunSection(Page(language, page, uploaded, col), language,
                                 x, y, o.out)
    /\ UNCHANGED <<language, page, uploaded, col, x, y, method, fn>>

Next ==
    \/ \E l \in Range(LanguageOptions) : SetLanguage(l)
    \/ \E p \in {LANG[l].home : l \in DOMAIN LANG} \cup
                {LANG[l].analyzer : l \in DOMAIN LANG} : SetPage(p)
    \/ \E f \in Files : Upload(f)
    \/ \E f \in Files : \E c \in Range(numeric_cols(f)) :
          SelectCol(c) \/ SelectX(c) \/ SelectY(c)
    \/ \E m \in Range(MethodOptions) : SelectMethod(m)
    \/ Run

Spec == Init /\ [][Next]_vars

----------------------------------------------------------------------------
(* The interpretation code and the frequency table applied on their own,   *)
(* to inputs drawn from bounded sets: FnSpec.  The session stays in its    *)
(* initial state.                                                          *)

\* coefficients: the bucket boundaries, their neighbours on the grid, the
\* ends of the range, both signs, and NaN
RMagnitudes == { 0, 1, 19999, 20000, 20001, 39999, 40000, 40001, 50000, 59999,
                 60000, 60001, 79999, 80000, 80001, 99999, Unit }
RVals == { F(m) : m \in RMagnitudes } \cup { F(-m) : m \in RMagnitudes } \cup { NaN }

\* p-values: 0, 1, 0.05 and its neighbours, values that round up or down to
\* four decimals, and NaN
PVals == { F(0), F(1), F(4), F(4990), F(4994), F(4996), F(4999), F(Alpha),
           F(5001), F(5010), F(64000), F(99996), F(Unit), NaN }

\* language tags: the two of LANG and two that LANG does not register
Tags == { "English", "Indonesia", "Jawa", "english" }

Columns == UNION { [1..n -> 1..MaxVal] : n \in 1..MaxLen }

\* the inputs: one application of either piece of code is pending
FnInit ==
    /\ language = LanguageOptions[1]
    /\ page = LANG[LanguageOptions[1]].home
    /\ uploaded = NoFile
    /\ col = None /\ x = None /\ y = None
    /\ method = NoMethod
    /\ shown = Blank
    /\ button = FALSE
    /\ call = NoCall
    /\ clicks = 0
    /\ engineCalls = 0
    /\ \/ \E r \in RVals, p \in PVals, xn \in {x1, ColX1}, yn \in {y1, ColYTotal},
             lang \in Tags :
             fn = [kind |-> "interpret", done |-> FALSE, r |-> r, p |-> p,
                   x |-> xn, y |-> yn, language |-> lang]
       \/ \E data \in Columns :
             fn = [kind |-> "tabulate", done |-> FALSE, data |-> data]

\* lines 244-263 applied to a coefficient, a p-value, two column names and a
\* language tag
Interpret ==
    /\ fn.kind = "interpret" /\ ~fn.done
    /\ fn' = [kind |-> "interpret", done |-> TRUE, r |-> fn.r, p |-> fn.p,
              x |-> fn.x, y |-> fn.y, language |-> fn.language,
              strength |-> strength(fn.r), sig |-> sig(fn.p),
              narrative |-> renderNarrative(fn.x, fn.y, strength(fn.r), sig(fn.p),
                                            fn.p, fn.language)]
    /\ UNCHANGED sessionVars

\* lines 191-197 applied to a column
Tabulate ==
    /\ fn.kind = "tabulate" /\ ~fn.done
    /\ fn' = [kind |-> "tabulate", done |-> TRUE, data |-> fn.data,
              table |-> freq_df(fn.data)]
    /\ UNCHANGED sessionVars

FnNext == Interpret \/ Tabulate

FnSpec == FnInit /\ [][FnNext]_vars

----------------------------------------------------------------------------
(* Properties *)

Abs(k) == IF k < 0 THEN -k ELSE k

Interpreted == fn.kind = "interpret" /\ fn.done
Tabulated == fn.kind = "tabulate" /\ fn.done

\* C1: the strength label depends only on |r| and follows left-inclusive
\* half-open buckets: |r| < 0.2 very weak, 0.2 <= |r| < 0.4 weak,
\* 0.4 <= |r| < 0.6 moderate, 0.6 <= |r| < 0.8 strong, 0.8 <= |r| <= 1 very
\* strong; a boundary value is in the higher bucket; r and -r get the same label.
C1_StrengthBuckets ==
    (Interpreted /\ ~fn.r.nan) =>
        LET a == Abs(fn.r.v)
        IN  /\ a <= Unit
            /\ (a < 20000) <=> (fn.strength = "very weak")
            /\ (20000 <= a /\ a < 40000) <=> (fn.strength = "weak")
            /\ (40000 <= a /\ a < 60000) <=> (fn.strength = "moderate")
            /\ (60000 <= a /\ a < 80000) <=> (fn.strength = "strong")
            /\ (80000 <= a) <=> (fn.strength = "very strong")
            /\ fn.strength = strength(F(-fn.r.v))

\* C1: r = -0.2, a negative boundary value, was classified weak
C1_Witness == Interpreted /\ fn.r = F(-20000) /\ fn.strength = "weak"

\* C2: the significance label is "significant" exactly when p < alpha (0.05,
\* the alpha of the code), "not significant" otherwise; p = alpha is not
\* significant.
C2_SignificanceStrict ==
    (Interpreted /\ ~fn.p.nan) =>
        /\ 0 <= fn.p.v /\ fn.p.v <= Unit
        /\ fn.sig \in {"significant", "not significant"}
        /\ (fn.sig = "significant") <=> (fn.p.v < Alpha)

\* C2: p = alpha was classified not significant
C2_Witness == Interpreted /\ fn.p = F(Alpha) /\ fn.sig = "not significant"

\* C3: a run on a column of zero variance ends in an error, and no
\* coefficient, p-value or narrative is displayed.
C3_ConstantInputError ==
    (/\ button
     /\ HasColumn(uploaded, x) /\ HasColumn(uploaded, y)
     /\ Len(Column(uploaded, x)) >= 2
     /\ IsConstant(Column(uploaded, x)) \/ IsConstant(Column(uploaded, y)))
    => (shown.error # "" /\ shown.result = <<>> /\ shown.narrative = <<>>)

C5_InvalidSelection ==
    (button /\ (x = None \/ y = None \/ x = y)) =>
        /\ shown.error # ""
        /\ call = NoCall
        /\ shown.result = <<>> /\ shown.narrative = <<>>

\* C5: the run button was clicked on a file with no X column and a Y column
C5_Witness ==
    /\ button /\ x = None /\ y # None
    /\ shown.error = "KeyError" /\ shown.preview = uploaded

\* C6: when the engine is run on insufficient or constant data the error is
\* surfaced at the run, with preview, descriptive statistics and frequency
\* table still displayed.
C6_EngineErrorSurfaced ==
    (/\ button /\ call.fn # ""
     /\ \/ Len(Column(uploaded, x)) < 2
        \/ IsConstant(Column(uploaded, x))
        \/ IsConstant(Column(uploaded, y)))
    => /\ shown.error # ""
       /\ shown.preview = uploaded
       /\ shown.desc = numeric_cols(uploaded)
       /\ shown.freq = freq_df(Column(uploaded, col))

\* C7: the X selector offers exactly the numeric columns whose lowercased
\* name is on the X allow-list and the Y selector those on the Y allow-list;
\* the selection is one of the options (None when there is none); a column
\* passed to the engine is numeric and on its list, and X and Y differ.
C7_SelectorsAllowListed ==
    LET cols == IF uploaded = NoFile THEN {} ELSE Range(Dataset[uploaded])
        xs == { c.name : c \in { d \in cols : d.numeric /\ Lower(d.name) \in XAllow } }
        ys == { c.name : c \in { d \in cols : d.numeric /\ Lower(d.name) \in YAllow } }
    IN  /\ method # NoMethod =>
             /\ Range(shown.x_options) = xs
             /\ Range(shown.y_options) = ys
             /\ IF xs = {} THEN x = None ELSE x \in xs
             /\ IF ys = {} THEN y = None ELSE y \in ys
        /\ call.fn # "" =>
             /\ call.x = x /\ call.y = y
             /\ call.x \in xs /\ call.y \in ys
             /\ call.x # call.y

\* C7: columns named X1 and Y_Total were offered and passed to the engine
C7_Witness ==
    /\ call.fn # "" /\ call.x = ColX1 /\ call.y = ColYTotal
    /\ ColX1 \in Range(shown.x_options)

\* C8 (original): the engine is called exactly once per click on run.
C8_OncePerClick == engineCalls = clicks

\* C8 (amended): no interaction other than a click on run calls the engine; a
\* click with both X and Y chosen calls it exactly once, with the X, Y and
\* method selected at the click (pearsonr for Pearson, spearmanr otherwise); a
\* click with X or Y not chosen calls it not at all.
C8_OncePerValidClick ==
    [][ /\ clicks' = clicks => (engineCalls' = engineCalls /\ call' = NoCall)
        /\ clicks' # clicks =>
             /\ clicks' = clicks + 1
             /\ IF x # None /\ y # None
                THEN /\ engineCalls' = engineCalls + 1
                     /\ call'.fn = IF method = "Pearson" THEN "pearsonr" ELSE "spearmanr"
                     /\ call'.x = x /\ call'.y = y
                     /\ method' = method /\ x' = x /\ y' = y
                ELSE engineCalls' = engineCalls /\ call' = NoCall ]_vars

\* C8: two clicks, two calls, the last one of spearmanr
C8_Witness == clicks > 1 /\ engineCalls = clicks /\ button /\ call.fn = "spearmanr"

\* C9: the narrative is the sentence template of the selected language with
\* the column names, the strength label, the significance label and the
\* p-value to 4 decimals substituted, and nothing else; x = [1,2,3,4,5],
\* y = [2,4,6,8,10] with Pearson gives very strong, significant, p = 0.0000.
C9_NarrativeTemplate ==
    /\ shown.narrative # <<>> =>
         LET st == shown.narrative[2]
             sg == shown.narrative[8]
             pt == shown.narrative[10]
         IN  /\ call.fn # "" /\ call.raised = ""
             /\ st = strength(call.r) /\ sg = sig(call.p)
             /\ pt = shown.result[2] /\ pt.digits = 4
             /\ pt.nan = call.p.nan
             /\ ~call.p.nan =>
                  2 * Abs(call.p.v * 10000 - (pt.int * 10000 + pt.frac) * Unit) <= Unit
             /\ language = "English" =>
                  shown.narrative =
                    << "There is a **", st, " relationship** between **", x,
                       "** and **", y, "**, and the result is **", sg,
                       "** (p = ", pt, ")." >>
             /\ language = "Indonesia" =>
                  shown.narrative =
                    << "Terdapat **hubungan ", st, "** antara **", x, "** dan **", y,
                       "** dengan nilai p **", sg, "** (p = ", pt, ")." >>
    /\ (button /\ uploaded = "e2e" /\ x = x1 /\ y = y1 /\ method = "Pearson") =>
         /\ shown.result[1] = [nan |-> FALSE, neg |-> FALSE, int |-> 1, frac |-> 0,
                               digits |-> 3]
         /\ shown.narrative[2] = "very strong"
         /\ shown.narrative[8] = "significant"
         /\ shown.narrative[10] = [nan |-> FALSE, neg |-> FALSE, int |-> 0,
                                   frac |-> 0, digits |-> 4]

\* C9: the end-to-end scenario was run in English and displayed its sentence
C9_Witness ==
    /\ button /\ uploaded = "e2e" /\ method = "Pearson" /\ language = "English"
    /\ shown.narrative =
         << "There is a **", "very strong", " relationship** between **", x1,
            "** and **", y1, "**, and the result is **", "significant", "** (p = ",
            [nan |-> FALSE, neg |-> FALSE, int |-> 0, frac |-> 0, digits |-> 4],
            ")." >>

\* C10: the frequency table has one row per distinct value, in strictly
\* ascending order of value; each count is the number of occurrences (the
\* counts sum to the number of values); each percentage is 100*count/total
\* rounded to 2 decimals; [1,1,2,3,3,3] gives (1,2,33.33), (2,1,16.67),
\* (3,3,50.00).
C10_FrequencyTable ==
    Tabulated =>
        LET t == fn.table
            d == fn.data
        IN  /\ Len(t) = Cardinality(Range(d))
            /\ { t[i].value : i \in DOMAIN t } = Range(d)
            /\ \A i \in 1..(Len(t) - 1) : t[i].value < t[i + 1].value
            /\ \A i \in DOMAIN t :
                  /\ t[i].Frequency = Cardinality({ j \in DOMAIN d : d[j] = t[i].value })
                  /\ 2 * Abs(100 * 100 * t[i].Frequency - t[i].Percentage * Len(d))
                        <= Len(d)
            /\ SumSeq([i \in DOMAIN t |-> t[i].Frequency]) = Len(d)
            /\ d = <<1,1,2,3,3,3>> =>
                  t = << [value |-> 1, Frequency |-> 2, Percentage |-> 3333],
                         [value |-> 2, Frequency |-> 1, Percentage |-> 1667],
                         [value |-> 3, Frequency |-> 3, Percentage |-> 5000] >>

\* C10: the column [1,1,2,3,3,3] was tabulated, 16.67 % for the value 2
C10_Witness ==
    Tabulated /\ fn.data = <<1,1,2,3,3,3>> /\ fn.table[2].Percentage = 1667

====
